---- MODULE Spec2Model ----
(***************************************************************************)
(* Model of src/api.ts: the axios instance `api` and the two exported      *)
(* async functions getDivinationInterpretation and addTodoItem.            *)
(*                                                                         *)
(* An invocation runs synchronously up to its single `await api.post(...)`,*)
(* is suspended while the request is in flight, and is resumed either in   *)
(* the try block (return response.data) or in the catch block              *)
(* (console.error(...); throw error).                                      *)
(***************************************************************************)
EXTENDS Integers, Sequences, FiniteSets, TLC

VARIABLES
    api,        \* the axios instance created at module load (its defaults)
    calls,      \* per invocation: which function, its arguments, position
    requests,   \* the HTTP requests issued through api.post, in issue order
    outcomes,   \* per invocation: the settlements of the promise it returned
    console     \* the console.error calls, in order

vars == <<api, calls, requests, outcomes, console>>

----------------------------------------------------------------------------
(* Bounds of the model *)

MaxCalls == 2

CallIds == 1..MaxCalls

(* JavaScript `undefined`: the value of the optional parameter `hexagram`
   of addTodoItem when the argument is omitted.  It is no string a caller
   can pass. *)
undefined == [type |-> "undefined"]
Str(s)    == [type |-> "string", value |-> s]

(* Argument tuples the callers draw from.  The empty string and the empty
   sequence are included: the functions perform no validation. *)
InterpretArgs ==
    { <<"", "qian", <<>> >>,
      <<"career", "qian", <<"yang", "yin">> >> }
TodoArgs ==
    { <<"", "", undefined>>,
      <<"plan", "rest", Str("kun")>> }

(* The reading of the wall clock (new Date()), in milliseconds since the
   epoch, that an invocation of addTodoItem may see. *)
ClockReadings == {123}

(* What the backend may answer. *)
ResponseBodies == {[result |-> "auspicious"], [result |-> "ominous"]}
FailureCodes   == {"ERR_NETWORK", "ERR_BAD_RESPONSE"}

----------------------------------------------------------------------------
(* Module-level constants of api.ts *)

API_BASE_URL == "http://localhost:3002/api"

InterpretPath == "/divination/interpret"
TodosPath     == "/todos"

\* console.error('获取占卜解读失败:', error)
InterpretFailedMsg == "huo qu zhan bu jie du shi bai:"
\* console.error('添加待办事项失败:', error)
TodoFailedMsg      == "tian jia dai ban shi xiang shi bai:"

(* axios.create({ baseURL: API_BASE_URL,
                  headers: { 'Content-Type': 'application/json' } }) *)
AxiosCreate ==
    [baseURL |-> API_BASE_URL,
     headers |-> [ContentType |-> "application/json"]]

----------------------------------------------------------------------------
(* new Date().toISOString(): the clock value formatted as an ISO-8601
   timestamp.  The clock counts milliseconds since the epoch. *)
Digit(d) == CASE d = 0 -> "0" [] d = 1 -> "1" [] d = 2 -> "2" [] d = 3 -> "3"
              [] d = 4 -> "4" [] d = 5 -> "5" [] d = 6 -> "6" [] d = 7 -> "7"
              [] d = 8 -> "8" [] d = 9 -> "9"

Millis(t) == Digit((t \div 100) % 10) \o Digit((t \div 10) % 10) \o Digit(t % 10)

toISOString(t) == "1970-01-01T00:00:00." \o Millis(t) \o "Z"

----------------------------------------------------------------------------
(* The request bodies, as the object literals of the source build them. *)

\* Variant: matter and hexagram exchanged in the object literal.
InterpretBodySwapped(matter, hexagram, lines) ==
    [matter |-> hexagram, hexagram |-> matter, lines |-> lines]

\* { matter, hexagram, lines }
InterpretBody(matter, hexagram, lines) ==
    [matter |-> matter, hexagram |-> hexagram, lines |-> lines]

\* Variant: an omitted hexagram defaulted to the empty string.
TodoBodyDefaulted(title, description, hexagram, clock) ==
    [title       |-> title,
     description |-> description,
     hexagram    |-> IF hexagram = undefined THEN Str("") ELSE hexagram,
     completed   |-> FALSE,
     createdAt   |-> toISOString(clock)]

\* { title, description, hexagram, completed: false,
\*   createdAt: new Date().toISOString() }
TodoBody(title, description, hexagram, clock) ==
    [title       |-> title,
     description |-> description,
     hexagram    |-> hexagram,
     completed   |-> FALSE,
     createdAt   |-> toISOString(clock)]

(* api.post(path, data): the request the instance issues, built from the
   instance defaults. `caller` records which invocation awaits it. *)
Post(instance, path, data, caller) ==
    [caller   |-> caller,
     method   |-> "POST",
     url      |-> instance.baseURL \o path,
     headers  |-> instance.headers,
     data     |-> data,
     state    |-> "pending",
     response |-> [none |-> TRUE]]

(* The failure value the HTTP client produces for request r: a fresh error
   object, identified by the request it belongs to. *)
AxiosError(r, code) == [name |-> "AxiosError", code |-> code, request |-> r]

----------------------------------------------------------------------------
Init ==
    /\ api = AxiosCreate
    /\ calls = [c \in CallIds |-> [pc |-> "idle"]]
    /\ requests = <<>>
    /\ outcomes = [c \in CallIds |-> <<>>]
    /\ console = <<>>

\* Variant: the pending request kept in one shared slot, overwritten by
\* every invocation.
AwaitedShared(c) == Len(requests)

(* The request an invocation is awaiting. *)
Awaited(c) == calls[c].req

\* Variant: the endpoint prefix written into the shared instance before
\* posting.
getDivinationInterpretationReconfigures(c, matter, hexagram, lines) ==
    /\ calls[c].pc = "idle"
    /\ api' = [api EXCEPT !.baseURL = API_BASE_URL \o "/divination"]
    /\ requests' = Append(requests,
            Post(api', "/interpret", InterpretBody(matter, hexagram, lines), c))
    /\ calls' = [calls EXCEPT ![c] =
            [pc |-> "awaiting", fn |-> "getDivinationInterpretation",
             args |-> [matter |-> matter, hexagram |-> hexagram, lines |-> lines],
             req |-> Len(requests) + 1]]
    /\ UNCHANGED <<outcomes, console>>

(* getDivinationInterpretation(matter, hexagram, lines), up to the await *)
getDivinationInterpretation(c, matter, hexagram, lines) ==
    /\ calls[c].pc = "idle"
    /\ requests' = Append(requests,
            Post(api, InterpretPath, InterpretBody(matter, hexagram, lines), c))
    /\ calls' = [calls EXCEPT ![c] =
            [pc |-> "awaiting", fn |-> "getDivinationInterpretation",
             args |-> [matter |-> matter, hexagram |-> hexagram, lines |-> lines],
             req |-> Len(requests) + 1]]
    /\ UNCHANGED <<api, outcomes, console>>

\* Variant: an empty title rejected before any request is made.
addTodoItemValidating(c, title, description, hexagram, now) ==
    /\ calls[c].pc = "idle"
    /\ IF title = ""
       THEN /\ calls' = [calls EXCEPT ![c] =
                    [pc |-> "done", fn |-> "addTodoItem",
                     args |-> [title |-> title, description |-> description,
                               hexagram |-> hexagram],
                     at |-> now, req |-> 0]]
            /\ outcomes' = [outcomes EXCEPT ![c] =
                    Append(@, [kind |-> "throw", value |-> [name |-> "Error"]])]
            /\ UNCHANGED <<api, requests, console>>
       ELSE /\ requests' = Append(requests,
                    Post(api, TodosPath, TodoBody(title, description, hexagram, now), c))
            /\ calls' = [calls EXCEPT ![c] =
                    [pc |-> "awaiting", fn |-> "addTodoItem",
                     args |-> [title |-> title, description |-> description,
                               hexagram |-> hexagram],
                     at |-> now, req |-> Len(requests) + 1]]
            /\ UNCHANGED <<api, outcomes, console>>

(* addTodoItem(title, description, hexagram?), up to the await *)
addTodoItem(c, title, description, hexagram, now) ==
    /\ calls[c].pc = "idle"
    /\ requests' = Append(requests,
            Post(api, TodosPath, TodoBody(title, description, hexagram, now), c))
    /\ calls' = [calls EXCEPT ![c] =
            [pc |-> "awaiting", fn |-> "addTodoItem",
             args |-> [title |-> title, description |-> description,
                       hexagram |-> hexagram],
             at |-> now,
             req |-> Len(requests) + 1]]
    /\ UNCHANGED <<api, outcomes, console>>

(* The backend answers request r with a success status and a body. *)
BackendSuccess(r, body) ==
    /\ requests[r].state = "pending"
    /\ requests' = [requests EXCEPT ![r].state = "fulfilled",
                                    ![r].response = [status |-> 200, data |-> body]]
    /\ UNCHANGED <<api, calls, outcomes, console>>

(* Request r fails: network error or non-success status. *)
RequestFailure(r, code) ==
    /\ requests[r].state = "pending"
    /\ requests' = [requests EXCEPT ![r].state = "rejected",
                                    ![r].response = AxiosError(r, code)]
    /\ UNCHANGED <<api, calls, outcomes, console>>

\* Variant: the whole response object returned instead of its data.
InterpretReturnWholeResponse(c) ==
    /\ calls[c].pc = "awaiting"
    /\ calls[c].fn = "getDivinationInterpretation"
    /\ requests[Awaited(c)].state = "fulfilled"
    /\ outcomes' = [outcomes EXCEPT ![c] =
            Append(@, [kind |-> "return", value |-> requests[Awaited(c)].response])]
    /\ calls' = [calls EXCEPT ![c].pc = "done"]
    /\ UNCHANGED <<api, requests, console>>

(* getDivinationInterpretation resumed in the try block:
   return response.data *)
InterpretReturn(c) ==
    /\ calls[c].pc = "awaiting"
    /\ calls[c].fn = "getDivinationInterpretation"
    /\ requests[Awaited(c)].state = "fulfilled"
    /\ outcomes' = [outcomes EXCEPT ![c] =
            Append(@, [kind |-> "return", value |-> requests[Awaited(c)].response.data])]
    /\ calls' = [calls EXCEPT ![c].pc = "done"]
    /\ UNCHANGED <<api, requests, console>>

\* Variant: the catch block posts the same body again and awaits the new
\* request (one retry).
InterpretCatchRetry(c) ==
    /\ calls[c].pc = "awaiting"
    /\ calls[c].fn = "getDivinationInterpretation"
    /\ requests[Awaited(c)].state = "rejected"
    /\ IF Cardinality({r \in 1..Len(requests) : requests[r].caller = c}) = 1
       THEN /\ requests' = Append(requests,
                    Post(api, InterpretPath, requests[Awaited(c)].data, c))
            /\ calls' = [calls EXCEPT ![c].req = Len(requests) + 1]
            /\ UNCHANGED <<api, outcomes, console>>
       ELSE /\ console' = Append(console,
                    [msg |-> InterpretFailedMsg, error |-> requests[Awaited(c)].response])
            /\ outcomes' = [outcomes EXCEPT ![c] =
                    Append(@, [kind |-> "throw", value |-> requests[Awaited(c)].response])]
            /\ calls' = [calls EXCEPT ![c].pc = "done"]
            /\ UNCHANGED <<api, requests>>

\* Variant: the catch block awaits something that never settles, so the
\* invocation is never resumed again.
InterpretCatchHangs(c) ==
    /\ calls[c].pc = "awaiting"
    /\ calls[c].fn = "getDivinationInterpretation"
    /\ requests[Awaited(c)].state = "rejected"
    /\ console' = Append(console,
            [msg |-> InterpretFailedMsg, error |-> requests[Awaited(c)].response])
    /\ calls' = [calls EXCEPT ![c].pc = "hung"]
    /\ UNCHANGED <<api, requests, outcomes>>

(* getDivinationInterpretation resumed in the catch block:
   console.error(msg, error); throw error *)
InterpretCatch(c) ==
    /\ calls[c].pc = "awaiting"
    /\ calls[c].fn = "getDivinationInterpretation"
    /\ requests[Awaited(c)].state = "rejected"
    /\ console' = Append(console,
            [msg |-> InterpretFailedMsg, error |-> requests[Awaited(c)].response])
    /\ outcomes' = [outcomes EXCEPT ![c] =
            Append(@, [kind |-> "throw", value |-> requests[Awaited(c)].response])]
    /\ calls' = [calls EXCEPT ![c].pc = "done"]
    /\ UNCHANGED <<api, requests>>

(* addTodoItem resumed in the try block: return response.data *)
TodoReturn(c) ==
    /\ calls[c].pc = "awaiting"
    /\ calls[c].fn = "addTodoItem"
    /\ requests[Awaited(c)].state = "fulfilled"
    /\ outcomes' = [outcomes EXCEPT ![c] =
            Append(@, [kind |-> "return", value |-> requests[Awaited(c)].response.data])]
    /\ calls' = [calls EXCEPT ![c].pc = "done"]
    /\ UNCHANGED <<api, requests, console>>

\* Variant: the catch block logs and falls through, so the function
\* returns undefined instead of rethrowing.
TodoCatchSwallows(c) ==
    /\ calls[c].pc = "awaiting"
    /\ calls[c].fn = "addTodoItem"
    /\ requests[Awaited(c)].state = "rejected"
    /\ console' = Append(console,
            [msg |-> TodoFailedMsg, error |-> requests[Awaited(c)].response])
    /\ outcomes' = [outcomes EXCEPT ![c] =
            Append(@, [kind |-> "return", value |-> undefined])]
    /\ calls' = [calls EXCEPT ![c].pc = "done"]
    /\ UNCHANGED <<api, requests>>

\* Variant: the catch block copied from getDivinationInterpretation with its
\* message left unchanged.
TodoCatchCopiedMessage(c) ==
    /\ calls[c].pc = "awaiting"
    /\ calls[c].fn = "addTodoItem"
    /\ requests[Awaited(c)].state = "rejected"
    /\ console' = Append(console,
            [msg |-> InterpretFailedMsg, error |-> requests[Awaited(c)].response])
    /\ outcomes' = [outcomes EXCEPT ![c] =
            Append(@, [kind |-> "throw", value |-> requests[Awaited(c)].response])]
    /\ calls' = [calls EXCEPT ![c].pc = "done"]
    /\ UNCHANGED <<api, requests>>

(* addTodoItem resumed in the catch block:
   console.error(msg, error); throw error *)
TodoCatch(c) ==
    /\ calls[c].pc = "awaiting"
    /\ calls[c].fn = "addTodoItem"
    /\ requests[Awaited(c)].state = "rejected"
    /\ console' = Append(console,
            [msg |-> TodoFailedMsg, error |-> requests[Awaited(c)].response])
    /\ outcomes' = [outcomes EXCEPT ![c] =
            Append(@, [kind |-> "throw", value |-> requests[Awaited(c)].response])]
    /\ calls' = [calls EXCEPT ![c].pc = "done"]
    /\ UNCHANGED <<api, requests>>

Next ==
    \/ \E c \in CallIds, a \in InterpretArgs :
            getDivinationInterpretation(c, a[1], a[2], a[3])
    \/ \E c \in CallIds, a \in TodoArgs, now \in ClockReadings :
            addTodoItem(c, a[1], a[2], a[3], now)
    \/ \E r \in 1..Len(requests), b \in ResponseBodies : BackendSuccess(r, b)
    \/ \E r \in 1..Len(requests), e \in FailureCodes : RequestFailure(r, e)
    \/ \E c \in CallIds : InterpretReturn(c)
    \/ \E c \in CallIds : InterpretCatch(c)
    \/ \E c \in CallIds : TodoReturn(c)
    \/ \E c \in CallIds : TodoCatch(c)

Spec == Init /\ [][Next]_vars

(* The continuation of invocation c after its await: the rest of the try
   block or the catch block of the function it runs. *)
Resume(c) ==
    \/ InterpretReturn(c)
    \/ InterpretCatch(c)
    \/ TodoReturn(c)
    \/ TodoCatch(c)

(* The event loop runs the continuation of an async function once the
   promise it awaits has settled. *)
Fairness == \A c \in CallIds : WF_vars(Resume(c))

FairSpec == Spec /\ Fairness

----------------------------------------------------------------------------
(* Vocabulary of the properties *)

Issued(c)   == calls[c].pc # "idle"
Finished(c) == calls[c].pc = "done"

IsInterpret(c) == Issued(c) /\ calls[c].fn = "getDivinationInterpretation"
IsTodo(c)      == Issued(c) /\ calls[c].fn = "addTodoItem"

(* The requests that were issued on behalf of invocation c. *)
RequestsOf(c) == {r \in 1..Len(requests) : requests[r].caller = c}

(* The console.error calls that report a failure of one of c's requests. *)
LogEntriesOf(c) ==
    {i \in 1..Len(console) : console[i].error.request \in RequestsOf(c)}

Failed(c)    == \E r \in RequestsOf(c) : requests[r].state = "rejected"
Succeeded(c) == \E r \in RequestsOf(c) : requests[r].state = "fulfilled"
Settled(c)   == Failed(c) \/ Succeeded(c)

----------------------------------------------------------------------------
(* C1: every invocation of getDivinationInterpretation has issued a POST to
   /divination/interpret whose body has exactly the fields matter, hexagram
   and lines, each equal to the corresponding argument, lines in the same
   order. *)
C1_InterpretBodyExact ==
    \A c \in CallIds : IsInterpret(c) =>
        \E r \in RequestsOf(c) :
            /\ requests[r].method = "POST"
            /\ requests[r].url = "http://localhost:3002/api/divination/interpret"
            /\ DOMAIN requests[r].data = {"matter", "hexagram", "lines"}
            /\ requests[r].data.matter = calls[c].args.matter
            /\ requests[r].data.hexagram = calls[c].args.hexagram
            /\ requests[r].data.lines = calls[c].args.lines

C1_Witness ==
    \E c \in CallIds :
        /\ IsInterpret(c)
        /\ calls[c].args.matter = "career"
        /\ calls[c].args.lines = <<"yang", "yin">>
        /\ RequestsOf(c) # {}

(* C2: every invocation of addTodoItem has POSTed to /todos a body whose
   title and description equal the arguments, whose completed is false, and
   whose hexagram is the provided value when one is given and undefined
   when the argument is omitted; no request to /todos carries
   completed = true. *)
C2_TodoBody ==
    /\ \A c \in CallIds : IsTodo(c) =>
        \E r \in RequestsOf(c) :
            /\ requests[r].method = "POST"
            /\ requests[r].url = "http://localhost:3002/api/todos"
            /\ requests[r].data.title = calls[c].args.title
            /\ requests[r].data.description = calls[c].args.description
            /\ requests[r].data.completed = FALSE
            /\ IF calls[c].args.hexagram = undefined
               THEN requests[r].data.hexagram = undefined
               ELSE requests[r].data.hexagram = calls[c].args.hexagram
    /\ \A r \in 1..Len(requests) :
        requests[r].url = "http://localhost:3002/api/todos"
            => requests[r].data.completed # TRUE

C2_Witness ==
    \E c1, c2 \in CallIds :
        /\ IsTodo(c1) /\ calls[c1].args.hexagram = undefined
        /\ IsTodo(c2) /\ calls[c2].args.hexagram = Str("kun")
        /\ RequestsOf(c1) # {} /\ RequestsOf(c2) # {}

(* C3: when the backend answered an invocation's request with success, the
   invocation returns exactly the body the backend sent. *)
C3_ReturnsBodyUnchanged ==
    \A c \in CallIds : (Finished(c) /\ Succeeded(c)) =>
        \E r \in RequestsOf(c) :
            /\ requests[r].state = "fulfilled"
            /\ requests[r].response.data \in ResponseBodies
            /\ outcomes[c] =
                <<[kind |-> "return", value |-> requests[r].response.data]>>

C3_Witness ==
    \E c1, c2 \in CallIds :
        /\ IsInterpret(c1) /\ Finished(c1) /\ Succeeded(c1)
        /\ IsTodo(c2) /\ Finished(c2) /\ Succeeded(c2)

(* C4: when an invocation's request failed, the invocation ends by throwing
   the very failure value the HTTP client produced for that request; it
   returns no value and does not complete without an outcome. *)
C4_RethrowsSameFailure ==
    \A c \in CallIds : (Finished(c) /\ Failed(c)) =>
        \E r \in RequestsOf(c), code \in FailureCodes :
            /\ requests[r].state = "rejected"
            /\ requests[r].response = AxiosError(r, code)
            /\ outcomes[c] = <<[kind |-> "throw", value |-> AxiosError(r, code)]>>

C4_Witness ==
    \E c1, c2 \in CallIds :
        /\ IsInterpret(c1) /\ Finished(c1) /\ Failed(c1)
        /\ IsTodo(c2) /\ Finished(c2) /\ Failed(c2)

(* C5: with several invocations in flight, each one completes with the
   outcome of a request it issued itself, and it waits for that request:
   a thrown failure belongs to one of its own requests, a returned body is
   the body of one of its own requests, and no invocation completes while
   its own request is still pending. *)
C5_OwnOutcome ==
    \A c \in CallIds : \A i \in 1..Len(outcomes[c]) :
        /\ Settled(c)
        /\ outcomes[c][i].kind = "throw" =>
            \E r \in RequestsOf(c) :
                requests[r].state = "rejected"
                    /\ outcomes[c][i].value = requests[r].response
        /\ outcomes[c][i].kind = "return" =>
            \E r \in RequestsOf(c) :
                requests[r].state = "fulfilled"
                    /\ outcomes[c][i].value = requests[r].response.data

(* Two overlapping invocations answered out of order: c2 issued its request
   first and is still suspended, c1 issued later and has completed; the two
   requests got different answers. *)
C5_Witness ==
    \E c1, c2 \in CallIds :
        /\ c1 # c2
        /\ Finished(c1) /\ calls[c2].pc = "awaiting"
        /\ calls[c2].req < calls[c1].req
        /\ requests[calls[c2].req].state # "pending"
        /\ requests[calls[c2].req].state # requests[calls[c1].req].state

(* C6: every invocation issues exactly one HTTP request over its lifetime,
   whether the request succeeds or fails; the requests issued are as many
   as the invocations made. *)
C6_ExactlyOneRequest ==
    /\ \A c \in CallIds :
        Cardinality(RequestsOf(c)) = IF Issued(c) THEN 1 ELSE 0
    /\ Len(requests) = Cardinality({c \in CallIds : Issued(c)})

C6_Witness ==
    \E c1, c2 \in CallIds :
        /\ Finished(c1) /\ Failed(c1) /\ Cardinality(RequestsOf(c1)) = 1
        /\ Finished(c2) /\ Succeeded(c2) /\ Cardinality(RequestsOf(c2)) = 1

(* C7: the instance configuration is the one created at module load in
   every reachable state, and every request carries its base URL and its
   Content-Type header. *)
C7_ConfigReadOnly ==
    /\ api = [baseURL |-> "http://localhost:3002/api",
              headers |-> [ContentType |-> "application/json"]]
    /\ \A r \in 1..Len(requests) :
        /\ requests[r].url \in {"http://localhost:3002/api/divination/interpret",
                                "http://localhost:3002/api/todos"}
        /\ requests[r].headers.ContentType = "application/json"

C7_Witness ==
    \E c1, c2 \in CallIds :
        /\ IsInterpret(c1) /\ Finished(c1) /\ Failed(c1)
        /\ IsTodo(c2) /\ calls[c2].pc = "awaiting"
        /\ calls[c1].req < calls[c2].req

(* C8: a failed invocation has logged its own diagnostic message exactly
   once by the time its failure is thrown to the caller, and not before the
   catch block runs; an invocation whose request succeeded logs nothing. *)
C8_LogsOncePerFailure ==
    /\ \A c \in CallIds :
        /\ Cardinality(LogEntriesOf(c)) =
                IF Finished(c) /\ Failed(c) THEN 1 ELSE 0
        /\ \A i \in LogEntriesOf(c) :
            console[i].msg = IF calls[c].fn = "getDivinationInterpretation"
                             THEN "huo qu zhan bu jie du shi bai:"
                             ELSE "tian jia dai ban shi xiang shi bai:"
    /\ Len(console) =
            Cardinality({c \in CallIds : Finished(c) /\ Failed(c)})

C8_Witness ==
    \E c1, c2 \in CallIds :
        /\ IsInterpret(c1) /\ Finished(c1) /\ Failed(c1)
        /\ IsTodo(c2) /\ Finished(c2) /\ Failed(c2)
        /\ Len(console) = 2

(* C9: once the request of an invocation has settled, the invocation
   eventually completes, and an invocation never has more than one outcome
   (a returned body or a thrown failure, not both). *)
C9_CompletesOnce ==
    /\ [](\A c \in CallIds : Len(outcomes[c]) <= 1)
    /\ \A c \in CallIds :
        (calls[c].pc = "awaiting" /\ Settled(c))
            ~> (Finished(c) /\ Len(outcomes[c]) = 1)

C9_Witness ==
    \E c1, c2 \in CallIds :
        /\ Finished(c1) /\ Len(outcomes[c1]) = 1 /\ Failed(c1)
        /\ calls[c2].pc = "awaiting" /\ Settled(c2)

(* C10: no argument value is rejected: an idle invocation can be started
   with every argument tuple, an invocation started with empty arguments
   has issued its request with the arguments passed through verbatim, and
   no invocation has an outcome without having issued a request. *)
C10_NoValidation ==
    \A c \in CallIds :
        /\ calls[c].pc = "idle" =>
            /\ \A a \in InterpretArgs :
                ENABLED getDivinationInterpretation(c, a[1], a[2], a[3])
            /\ \A a \in TodoArgs, t \in ClockReadings :
                ENABLED addTodoItem(c, a[1], a[2], a[3], t)
        /\ (IsInterpret(c) /\ calls[c].args.matter = "") =>
            \E r \in RequestsOf(c) :
                requests[r].data.matter = "" /\ requests[r].data.lines = <<>>
        /\ (IsTodo(c) /\ calls[c].args.title = "") =>
            \E r \in RequestsOf(c) :
                requests[r].data.title = "" /\ requests[r].data.description = ""
        /\ outcomes[c] # <<>> => RequestsOf(c) # {}

C10_Witness ==
    \E c1, c2 \in CallIds :
        /\ IsInterpret(c1) /\ calls[c1].args.matter = ""
        /\ calls[c1].args.lines = <<>>
        /\ IsTodo(c2) /\ calls[c2].args.title = ""
        /\ calls[c2].args.description = ""
        /\ RequestsOf(c1) # {} /\ RequestsOf(c2) # {}

====
